---- MODULE Spec2Model ----
(***************************************************************************)
(* Model of the YouTube-to-LinkedIn server: the pure helpers of            *)
(* TranscriptService (extract_video_id, _parse_duration,                   *)
(* _clean_transcript), SummaryService._parse_response,                     *)
(* PostGenerationService._extract_hashtags, the four service methods, the  *)
(* four HTTP route handlers, the command-tool front-end (call_tool /       *)
(* tool_args / tool_runner), and requests served concurrently, each by a   *)
(* service the route's dependency builds for it.                           *)
(*                                                                         *)
(* Strings are sequences of symbols.  A symbol is one character, or a      *)
(* literal the code compares against ("watch", "embed", a host name)       *)
(* taken as one unit.                                                      *)
(***************************************************************************)
EXTENDS Integers, Sequences, FiniteSets, TLC

VARIABLES
    pc,         \* position of the operation under way
    url,        \* youtube_url given to extract_video_id
    vid,        \* outcome of extract_video_id
    dur,        \* duration_str given to _parse_duration
    secs,       \* outcome of _parse_duration
    hms,      \* the components a well-formed duration_str was built from
    text,       \* transcript given to _clean_transcript
    once,       \* _clean_transcript(text)
    twice,      \* _clean_transcript(_clean_transcript(text))
    env,        \* the process environment: YOUTUBE_API_KEY, OPENAI_API_KEY
    request,    \* the HTTP request handled
    result,     \* the dict the service method returned to the route handler
    calls,      \* the outbound calls made while handling, in order
    response,   \* the HTTP response
    toolcall,   \* the name and arguments given to call_tool
    reply,      \* the JSON the HTTP API answers a POST of this call with
    posts,      \* the POSTs tool_runner made, in order
    returned,   \* what call_tool returned or raised
    llmtext,    \* response_text given to _parse_response
    sectioned,  \* outcome of _parse_response
    posttext,   \* post_content given to _extract_hashtags
    hashtagged, \* outcome of _extract_hashtags
    charcount,  \* character_count of a generated post
    readtime,   \* the estimated_read_time computed from it
    svccall,    \* the service method called directly, with its arguments
    svcresult,  \* what the service method returned or raised
    openai,     \* the openai module: its attribute api_key
    inflight    \* the requests served concurrently, each with its own service

pureVars == <<url, vid, dur, secs, hms, text, once, twice>>
httpVars == <<env, request, result, calls, response>>
toolVars == <<toolcall, reply, posts, returned>>
textVars == <<llmtext, sectioned, posttext, hashtagged, charcount, readtime>>
svcVars == <<svccall, svcresult, openai, inflight>>
vars == <<pc, pureVars, httpVars, toolVars, textVars, svcVars>>

\* no outcome yet
Pending == [kind |-> "pending"]

\* None, as the value of an optional string
NoneStr == "<None>"

\* the variables of the operations that are not under way
IdlePure ==
    /\ url = <<>> /\ vid = Pending
    /\ dur = <<>> /\ secs = Pending /\ hms = <<>>
    /\ text = <<>> /\ once = <<>> /\ twice = <<>>

IdleTool ==
    /\ toolcall = Pending /\ reply = <<>>
    /\ posts = <<>> /\ returned = Pending

IdleText ==
    /\ llmtext = <<>> /\ sectioned = Pending
    /\ posttext = <<>> /\ hashtagged = Pending
    /\ charcount = 0 /\ readtime = Pending

IdleSvc ==
    /\ svccall = Pending /\ svcresult = Pending
    /\ openai = [api_key |-> NoneStr] /\ inflight = <<>>

IdleRequest ==
    /\ env = [YOUTUBE_API_KEY |-> NoneStr, OPENAI_API_KEY |-> NoneStr]
    /\ request = Pending /\ result = Pending
    /\ calls = <<>> /\ response = Pending

IdleHttp ==
    /\ IdleRequest
    /\ IdleTool /\ IdleText /\ IdleSvc

(***************************************************************************)
(* Bounds                                                                  *)
(***************************************************************************)
MaxPath == 4
MaxQuery == 3
MaxDurLen == 5
MaxDigits == 2
MaxText == 5
MaxReply == 6
MaxPost == 7
MaxChars == 2700
MaxRequests == 2

(***************************************************************************)
(* Sequence helpers (str methods)                                          *)
(***************************************************************************)
\* all sequences over S of length 0..n
SeqUpTo(S, n) == UNION {[1..k -> S] : k \in 0..n}

\* s[i:]  (i is 0-based as in Python, clamped)
From(s, i) == IF i >= Len(s) THEN <<>> ELSE SubSeq(s, i + 1, Len(s))

\* the symbols occurring in s
Range(s) == {s[i] : i \in 1..Len(s)}

\* s.startswith(p)
StartsWith(s, p) == Len(s) >= Len(p) /\ SubSeq(s, 1, Len(p)) = p

\* position (1-based) of the first element of s that is in S, 0 if none
RECURSIVE FirstIn(_, _, _)
FirstIn(s, S, i) ==
    IF i > Len(s) THEN 0
    ELSE IF s[i] \in S THEN i
    ELSE FirstIn(s, S, i + 1)

\* s.split(c) for a one-symbol separator c: never empty, pieces may be empty
RECURSIVE Split(_, _)
Split(s, c) ==
    LET i == FirstIn(s, {c}, 1)
    IN  IF i = 0 THEN <<s>>
        ELSE <<SubSeq(s, 1, i - 1)>> \o Split(From(s, i), c)

(***************************************************************************)
(* urllib.parse as used by extract_video_id                                *)
(***************************************************************************)
\* urlparse(youtube_url): the URL is <<scheme, ...>>; netloc runs to the
\* first "/" or "?", path to the first "?", query is what follows it
urlparse(u) ==
    LET rest == From(u, 1)
        i    == FirstIn(rest, {"/", "?"}, 1)
        loc  == IF i = 0 THEN rest ELSE SubSeq(rest, 1, i - 1)
        tl   == IF i = 0 THEN <<>> ELSE From(rest, i - 1)
        q    == FirstIn(tl, {"?"}, 1)
    IN  [netloc |-> loc,
         path   |-> IF q = 0 THEN tl ELSE SubSeq(tl, 1, q - 1),
         query  |-> IF q = 0 THEN <<>> ELSE From(tl, q)]

\* parse_qsl(query): the (name, value) pairs in order; a field without "="
\* and a field with a blank value are skipped (keep_blank_values=False)
RECURSIVE parse_qsl(_)
parse_qsl(fields) ==
    IF fields = <<>> THEN <<>>
    ELSE LET f  == Head(fields)
             e  == FirstIn(f, {"="}, 1)
             nm == SubSeq(f, 1, e - 1)
             vl == From(f, e)
         IN  IF e = 0 \/ vl = <<>>
             THEN parse_qsl(Tail(fields))
             ELSE <<[name |-> nm, value |-> vl]>> \o parse_qsl(Tail(fields))

\* parse_qs(query)[key]: the values of key in order, <<>> when key is absent
RECURSIVE ValuesOf(_, _)
ValuesOf(pairs, key) ==
    IF pairs = <<>> THEN <<>>
    ELSE IF Head(pairs).name = key
         THEN <<Head(pairs).value>> \o ValuesOf(Tail(pairs), key)
         ELSE ValuesOf(Tail(pairs), key)

parse_qs(query, key) == ValuesOf(parse_qsl(Split(query, "&")), key)

(***************************************************************************)
(* TranscriptService.extract_video_id                                      *)
(***************************************************************************)
Returned(v) == [kind |-> "return", value |-> v]
Raised(e, m) == [kind |-> "raise", exc |-> e, msg |-> m]

\* parsed_url.path[1:] for host youtu.be
ShortLinkId(path) == From(path, 1)

\* SegmentId taking the segment before the identifier
SegmentId_Prev(path) == Split(path, "/")[2]

\* parsed_url.path.split('/')[2] for /embed/ and /v/
SegmentId(path) == Split(path, "/")[3]

\* parse_qs(parsed_url.query)['v'][0]
WatchId(query) ==
    LET vs == parse_qs(query, <<"v">>)
    IN  IF vs = <<>> THEN Raised("KeyError", <<"'v'">>)
        ELSE Returned(vs[1])

extract_video_id(youtube_url) ==
    LET parsed_url == urlparse(youtube_url)
    IN  IF parsed_url.netloc = <<"youtu.be">>
        THEN Returned(ShortLinkId(parsed_url.path))
        ELSE IF parsed_url.netloc \in {<<"www.youtube.com">>, <<"youtube.com">>}
                /\ parsed_url.path = <<"/", "watch">>
        THEN WatchId(parsed_url.query)
        ELSE IF parsed_url.netloc \in {<<"www.youtube.com">>, <<"youtube.com">>}
                /\ StartsWith(parsed_url.path, <<"/", "embed", "/">>)
        THEN Returned(SegmentId(parsed_url.path))
        ELSE IF parsed_url.netloc \in {<<"www.youtube.com">>, <<"youtube.com">>}
                /\ StartsWith(parsed_url.path, <<"/", "v", "/">>)
        THEN Returned(SegmentId(parsed_url.path))
        ELSE Raised("ValueError",
                    <<"Could not extract video ID from URL: ">> \o youtube_url)

(***************************************************************************)
(* URL inputs                                                              *)
(***************************************************************************)
Hosts == {"youtu.be", "www.youtube.com", "youtube.com", "example.com"}
PathSym == {"/", "watch", "embed", "v", "a"}
QuerySym == {"v", "=", "&"}

\* scheme://host[/path...][?query]
MakeUrl(h, p, q) ==
    <<"https://", h>> \o p \o (IF q = <<>> THEN <<>> ELSE <<"?">> \o q)

Paths == {p \in SeqUpTo(PathSym, MaxPath) : p = <<>> \/ p[1] = "/"}
Queries == SeqUpTo(QuerySym, MaxQuery)

(***************************************************************************)
(* Specification of the URL parser                                         *)
(***************************************************************************)
InitUrl ==
    /\ pc = "start"
    /\ \E h \in Hosts, p \in Paths, q \in Queries : url = MakeUrl(h, p, q)
    /\ vid = Pending
    /\ dur = <<>> /\ secs = Pending /\ hms = <<>>
    /\ text = <<>> /\ once = <<>> /\ twice = <<>>
    /\ IdleHttp

ExtractVideoId ==
    /\ pc = "start"
    /\ vid' = extract_video_id(url)
    /\ pc' = "done"
    /\ UNCHANGED <<url, dur, secs, hms, text, once, twice, httpVars, toolVars, textVars, svcVars>>

NextUrl == ExtractVideoId

SpecUrl == InitUrl /\ [][NextUrl]_vars

(***************************************************************************)
(* Properties of extract_video_id                                          *)
(***************************************************************************)
RecognizedHosts == {"www.youtube.com", "youtube.com"}
IdSym == {"watch", "embed", "v", "a"}

\* a non-empty string of identifier symbols
IsIdentifier(s) == s # <<>> /\ \A i \in 1..Len(s) : s[i] \in IdSym

\* u is prefix ++ id ++ rest with id the n symbols after the prefix, and
\* rest empty or starting with one of the symbols of Follow
HasIdAfter(u, prefix, n, Follow) ==
    /\ StartsWith(u, prefix)
    /\ Len(prefix) + n <= Len(u)
    /\ IsIdentifier(SubSeq(u, Len(prefix) + 1, Len(prefix) + n))
    /\ From(u, Len(prefix) + n) # <<>> => u[Len(prefix) + n + 1] \in Follow

IdAfter(u, prefix, n) == SubSeq(u, Len(prefix) + 1, Len(prefix) + n)

\* the prefixes of the four recognized shapes and what may follow the id
ShortPrefix == <<"https://", "youtu.be", "/">>
WatchPrefix(h) == <<"https://", h, "/", "watch", "?", "v", "=">>
EmbedPrefix(h) == <<"https://", h, "/", "embed", "/">>
VPrefix(h) == <<"https://", h, "/", "v", "/">>

\* a URL of another host, or of a youtube.com host with a path that is
\* neither /watch nor under /embed/ or /v/
OtherHostOrPath(u) ==
    LET t == From(u, 2)
    IN  \/ u[2] \notin RecognizedHosts \cup {"youtu.be"}
        \/ /\ u[2] \in RecognizedHosts
           /\ ~ (StartsWith(t, <<"/", "watch">>)
                 /\ (Len(t) = 2 \/ t[3] = "?"))
           /\ ~ StartsWith(t, <<"/", "embed", "/">>)
           /\ ~ StartsWith(t, <<"/", "v", "/">>)

\* C3: for a URL of one of the four recognized shapes (youtu.be/<id>,
\* [www.]youtube.com/watch?v=<id>, /embed/<id>, /v/<id>, <id> a non-empty
\* identifier, optionally followed by a query or further parameters)
\* extract_video_id returns exactly <id>; for a URL of another host or of
\* another path on youtube.com it raises the could-not-extract ValueError.
C3_ShapesYieldExactId ==
    pc = "done" =>
      /\ \A n \in 1..Len(url) :
           /\ HasIdAfter(url, ShortPrefix, n, {"?"})
                => vid = Returned(IdAfter(url, ShortPrefix, n))
           /\ \A h \in RecognizedHosts :
                /\ HasIdAfter(url, WatchPrefix(h), n, {"&"})
                     => vid = Returned(IdAfter(url, WatchPrefix(h), n))
                /\ HasIdAfter(url, EmbedPrefix(h), n, {"?", "/"})
                     => vid = Returned(IdAfter(url, EmbedPrefix(h), n))
                /\ HasIdAfter(url, VPrefix(h), n, {"?", "/"})
                     => vid = Returned(IdAfter(url, VPrefix(h), n))
      /\ OtherHostOrPath(url)
           => vid = Raised("ValueError",
                           <<"Could not extract video ID from URL: ">> \o url)

\* a /watch URL has been parsed to the value of its v parameter
C3_Witness ==
    /\ pc = "done"
    /\ url = <<"https://", "www.youtube.com", "/", "watch", "?", "v", "=", "v">>
    /\ vid = Returned(<<"v">>)

\* C4: for a youtu.be URL the result is the first path segment only, nothing
\* after a further "/" belongs to it.
C4_ShortLinkFirstSegment ==
    pc = "done" /\ url[2] = "youtu.be" =>
      /\ vid.kind = "return"
      /\ vid.value = Split(From(urlparse(url).path, 1), "/")[1]

\* C5: a returned video_id is never the empty string.
C5_VideoIdNonEmpty ==
    pc = "done" /\ vid.kind = "return" => vid.value # <<>>

(***************************************************************************)
(* TranscriptService._parse_duration                                       *)
(***************************************************************************)
Digits == {"0", "1", "2", "3"}

DigitValue(c) == CASE c = "0" -> 0 [] c = "1" -> 1 [] c = "2" -> 2 [] c = "3" -> 3

\* value of a string of decimal digits
RECURSIVE DecValue(_)
DecValue(s) ==
    IF s = <<>> THEN 0
    ELSE DecValue(SubSeq(s, 1, Len(s) - 1)) * 10 + DigitValue(s[Len(s)])

\* int(s): an optional sign followed by one or more digits, else ValueError
int(s) ==
    LET neg  == s # <<>> /\ s[1] = "-"
        body == IF neg THEN Tail(s) ELSE s
    IN  IF body # <<>> /\ \A i \in 1..Len(body) : body[i] \in Digits
        THEN Returned(IF neg THEN 0 - DecValue(body) ELSE DecValue(body))
        ELSE Raised("ValueError",
                    <<"invalid literal for int() with base 10: ">> \o s)

\* one "if unit in duration" block: the number before the first unit letter
\* and what is left of the string for the next block
TakeUnit(duration, unit) ==
    IF FirstIn(duration, {unit}, 1) = 0
    THEN [number |-> Returned(0), rest |-> duration]
    ELSE [number |-> int(Split(duration, unit)[1]),
          rest   |-> Split(duration, unit)[2]]

\* _parse_duration counting an hour as 60 seconds
_parse_duration_Hour60(duration_str) ==
    LET duration == From(duration_str, 2)
        h == TakeUnit(duration, "H")
        m == TakeUnit(h.rest, "M")
        s == TakeUnit(m.rest, "S")
    IN  IF h.number.kind = "raise" THEN h.number
        ELSE IF m.number.kind = "raise" THEN m.number
        ELSE IF s.number.kind = "raise" THEN s.number
        ELSE Returned(h.number.value * 60 + m.number.value * 60
                      + s.number.value)

_parse_duration(duration_str) ==
    LET duration == From(duration_str, 2)
        h == TakeUnit(duration, "H")
        m == TakeUnit(h.rest, "M")
        s == TakeUnit(m.rest, "S")
    IN  IF h.number.kind = "raise" THEN h.number
        ELSE IF m.number.kind = "raise" THEN m.number
        ELSE IF s.number.kind = "raise" THEN s.number
        ELSE Returned(h.number.value * 3600 + m.number.value * 60
                      + s.number.value)

(***************************************************************************)
(* Duration inputs                                                         *)
(***************************************************************************)
DurSym == {"P", "T", "H", "M", "S", "0", "1", "-"}

\* a component of PT[<h>H][<m>M][<s>S]: absent, zero, or a string of up to
\* MaxDigits non-zero digits
Absent == <<>>
Component == SeqUpTo({"1", "2", "3"}, MaxDigits) \cup {<<"0">>}

WithUnit(c, unit) == IF c = Absent THEN <<>> ELSE c \o <<unit>>

FormatDuration(h, m, s) ==
    <<"P", "T">> \o WithUnit(h, "H") \o WithUnit(m, "M") \o WithUnit(s, "S")

(***************************************************************************)
(* Specification of the duration parser                                    *)
(***************************************************************************)
InitDur ==
    /\ pc = "start"
    /\ \/ /\ dur \in SeqUpTo(DurSym, MaxDurLen)
          /\ hms = <<>>
       \/ \E h \in Component, m \in Component, s \in Component :
             /\ dur = FormatDuration(h, m, s)
             /\ hms = <<h, m, s>>
    /\ secs = Pending
    /\ url = <<>> /\ vid = Pending
    /\ text = <<>> /\ once = <<>> /\ twice = <<>>
    /\ IdleHttp

ParseDuration ==
    /\ pc = "start"
    /\ secs' = _parse_duration(dur)
    /\ pc' = "done"
    /\ UNCHANGED <<url, vid, dur, hms, text, once, twice, httpVars, toolVars, textVars, svcVars>>

NextDur == ParseDuration

SpecDur == InitDur /\ [][NextDur]_vars

(***************************************************************************)
(* Properties of _parse_duration                                           *)
(***************************************************************************)
\* h*3600 + m*60 + s of the components, an absent one counting as 0
SecondsOf(c) ==
    DecValue(c[1]) * 3600 + DecValue(c[2]) * 60 + DecValue(c[3])

\* C7: for PT[<h>H][<m>M][<s>S] built from non-negative integer components
\* in the order H, M, S, _parse_duration returns h*3600 + m*60 + s, a
\* missing component counting as 0.
C7_WellFormedDuration ==
    pc = "done" /\ hms # <<>> => secs = Returned(SecondsOf(hms))

\* "PT1H2M3S" has been parsed to 3723
C7_Witness ==
    /\ pc = "done"
    /\ hms = << <<"1">>, <<"2">>, <<"3">> >>
    /\ dur = <<"P", "T", "1", "H", "2", "M", "3", "S">>
    /\ secs = Returned(3723)

\* some unit letter of s (after the two-symbol prefix) is preceded, back to
\* the previous unit letter, by a symbol that is not a digit
NonNumericBeforeUnit(s) ==
    \E i \in 3..Len(s), j \in 3..Len(s) :
      /\ j < i
      /\ s[i] \in {"H", "M", "S"}
      /\ s[j] \notin Digits
      /\ \A k \in j..(i - 1) : s[k] \notin {"H", "M", "S"}

\* C8: _parse_duration fails on every input that does not start with "PT"
\* and on every input with non-numeric data before a unit letter.
C8_MalformedDurationFails ==
    pc = "done" /\ (~ StartsWith(dur, <<"P", "T">>) \/ NonNumericBeforeUnit(dur))
      => secs.kind = "raise"

\* C9: a value returned by _parse_duration is never negative.
C9_DurationNonNegative ==
    pc = "done" /\ secs.kind = "return" => secs.value >= 0

(***************************************************************************)
(* TranscriptService._clean_transcript                                     *)
(***************************************************************************)
TextSym == {"a", "1", " ", "\n", ":", "[", "]", "."}

DigitSym == {"1"}                                \* \d
WordSym  == {"a", "A", "1"}                         \* \w
SpaceSym == {" ", "\n"}                          \* \s
IsSpace(c) == c \in SpaceSym
IsKept(c)  == c \in WordSym \cup SpaceSym \cup {".", ",", "?", "!", "-"}

\* last position of the longest run of symbols of the class C starting at i
\* (i - 1 when the run is empty)
RECURSIVE RunEnd(_, _, _)
RunEnd(s, i, C) ==
    IF i <= Len(s) /\ s[i] \in C THEN RunEnd(s, i + 1, C) ELSE i - 1

At(s, i) == IF i >= 1 /\ i <= Len(s) THEN s[i] ELSE "<eos>"

\* last position of a match of \[\d+:\d+\] starting at i, 0 if none
TimestampEnd(s, i) ==
    LET d1 == RunEnd(s, i + 1, DigitSym)
        d2 == RunEnd(s, d1 + 2, DigitSym)
    IN  IF /\ At(s, i) = "["
           /\ d1 >= i + 1
           /\ At(s, d1 + 1) = ":"
           /\ d2 >= d1 + 2
           /\ At(s, d2 + 1) = "]"
        THEN d2 + 1
        ELSE 0

\* re.sub(r'\[\d+:\d+\]', '', s), scanning from position i
RECURSIVE RemoveTimestamps(_, _)
RemoveTimestamps(s, i) ==
    IF i > Len(s) THEN <<>>
    ELSE IF TimestampEnd(s, i) # 0
         THEN RemoveTimestamps(s, TimestampEnd(s, i) + 1)
         ELSE <<s[i]>> \o RemoveTimestamps(s, i + 1)

\* last position of a match of ^\s*\w+\s*: (MULTILINE) starting at i, 0 if none
LabelEnd(s, i) ==
    LET s1 == RunEnd(s, i, SpaceSym)
        w  == RunEnd(s, s1 + 1, WordSym)
        s2 == RunEnd(s, w + 1, SpaceSym)
    IN  IF /\ (i = 1 \/ At(s, i - 1) = "\n")
           /\ w >= s1 + 1
           /\ At(s, s2 + 1) = ":"
        THEN s2 + 1
        ELSE 0

\* re.sub(r'^\s*\w+\s*:', '', s, flags=re.MULTILINE), scanning from position i
RECURSIVE RemoveLabels(_, _)
RemoveLabels(s, i) ==
    IF i > Len(s) THEN <<>>
    ELSE IF LabelEnd(s, i) # 0
         THEN RemoveLabels(s, LabelEnd(s, i) + 1)
         ELSE <<s[i]>> \o RemoveLabels(s, i + 1)

\* a collapse whose replacement text is two spaces
RECURSIVE CollapseSpaces_Double(_, _)
CollapseSpaces_Double(s, i) ==
    IF i > Len(s) THEN <<>>
    ELSE IF IsSpace(s[i])
         THEN <<" ", " ">> \o CollapseSpaces_Double(s, RunEnd(s, i, SpaceSym) + 1)
         ELSE <<s[i]>> \o CollapseSpaces_Double(s, i + 1)

\* re.sub(r'\s+', ' ', s), scanning from position i
RECURSIVE CollapseSpaces(_, _)
CollapseSpaces(s, i) ==
    IF i > Len(s) THEN <<>>
    ELSE IF IsSpace(s[i])
         THEN <<" ">> \o CollapseSpaces(s, RunEnd(s, i, SpaceSym) + 1)
         ELSE <<s[i]>> \o CollapseSpaces(s, i + 1)

\* re.sub(r'[^\w\s.,?!-]', '', s)
RemoveSpecial(s) == SelectSeq(s, IsKept)

\* s.strip()
RECURSIVE LStrip(_)
LStrip(s) == IF s # <<>> /\ IsSpace(Head(s)) THEN LStrip(Tail(s)) ELSE s

RECURSIVE RStrip(_)
RStrip(s) ==
    IF s # <<>> /\ IsSpace(s[Len(s)])
    THEN RStrip(SubSeq(s, 1, Len(s) - 1))
    ELSE s

Strip(s) == RStrip(LStrip(s))

_clean_transcript(transcript) ==
    LET t1 == RemoveTimestamps(transcript, 1)
        t2 == RemoveLabels(t1, 1)
        t3 == CollapseSpaces(t2, 1)
        t4 == RemoveSpecial(t3)
    IN  Strip(t4)

(***************************************************************************)
(* Specification of the transcript cleaner                                 *)
(***************************************************************************)
InitClean ==
    /\ pc = "start"
    /\ text \in SeqUpTo(TextSym, MaxText)
    /\ once = <<>> /\ twice = <<>>
    /\ url = <<>> /\ vid = Pending
    /\ dur = <<>> /\ secs = Pending /\ hms = <<>>
    /\ IdleHttp

\* the cleaning done by get_transcript on the fetched text
Clean ==
    /\ pc = "start"
    /\ once' = _clean_transcript(text)
    /\ pc' = "cleaned"
    /\ UNCHANGED <<url, vid, dur, secs, hms, text, twice, httpVars, toolVars, textVars, svcVars>>

\* the cleaner applied to its own output
CleanAgain ==
    /\ pc = "cleaned"
    /\ twice' = _clean_transcript(once)
    /\ pc' = "recleaned"
    /\ UNCHANGED <<url, vid, dur, secs, hms, text, once, httpVars, toolVars, textVars, svcVars>>

NextClean == Clean \/ CleanAgain

SpecClean == InitClean /\ [][NextClean]_vars

(***************************************************************************)
(* Properties of _clean_transcript                                         *)
(***************************************************************************)
\* C10: _clean_transcript is idempotent, clean(clean(x)) = clean(x).
C10_CleanIdempotent ==
    pc = "recleaned" => twice = once

\* C11: the cleaned text is never longer than the raw text and consists only
\* of characters that occur in the raw text.
C11_CleanedWithinRaw ==
    pc = "cleaned" => /\ Len(once) <= Len(text)
                      /\ Range(once) \subseteq Range(text)

\* C11 as amended: the cleaned text is never longer than the raw text and
\* consists only of characters that occur in the raw text or of the single
\* space that replaces a run of whitespace.
C11_CleanedWithinRawOrSpace ==
    pc = "cleaned" => /\ Len(once) <= Len(text)
                      /\ Range(once) \subseteq Range(text) \cup {" "}

\* a line break between two words has been cleaned into a space
C11_Witness ==
    /\ pc = "cleaned"
    /\ text = <<"a", "\n", "a">>
    /\ once = <<"a", " ", "a">>

(***************************************************************************)
(* Python values shared by the services                                    *)
(***************************************************************************)
\* a test for None alone, which takes '' for a value
Truthy_NotNone(x) == x # NoneStr

\* truth value of an optional string: None and '' are false
Truthy(x) == x \notin {NoneStr, ""}

\* an or that prefers its second operand
Or_EnvFirst(a, b) == IF Truthy(b) THEN b ELSE a

\* a or b
Or(a, b) == IF Truthy(a) THEN a ELSE b

\* a test that looks for the message under another name
HasError_Message(d) == "message" \in DOMAIN d /\ d["message"] # <<>>

\* "error" in d and d["error"]
HasError(d) == "error" \in DOMAIN d /\ d["error"] # <<>>

\* d.get(k, default)
Get(d, k, default) == IF k \in DOMAIN d THEN d[k] ELSE default

\* {**d, **e}
Merge(d, e) == e @@ d

\* the outcome of a service method: the dict it returns (or the exception it
\* raises) and the outbound calls it made, in order
Outcome(r, cs) == [result |-> r, calls |-> cs]

(***************************************************************************)
(* TranscriptService.get_video_metadata                                    *)
(***************************************************************************)
\* youtube.videos().list(part=..., id=video_id).execute() with developerKey
MetadataCall(video_id, key) ==
    [to |-> "youtube.videos.list", id |-> video_id, key |-> key]

\* str(e) of googleapiclient's HttpError: status, request URI (which carries
\* the developer key as its key parameter) and reason
HttpErrorStr(video_id, key, api) ==
    <<"<HttpError ", api.status, " when requesting ",
      "https://youtube.googleapis.com/youtube/v3/videos?id=">> \o video_id
    \o <<"&key=", key, "&alt=json", " returned ", api.reason, ">">>

\* the dict get_video_metadata builds from what the Data API did:
\*   [kind |-> "HttpError", status, reason]  execute() raised HttpError
\*   [kind |-> "Exception", text]   build()/execute() raised something else
\*   [kind |-> "items", items]      the response; an item carries the
\*                                  snippet fields and contentDetails.duration
MetadataFrom(video_id, key, api) ==
    IF api.kind = "HttpError"
    THEN [video_id |-> video_id,
          error |-> <<"YouTube API error: ">>
                    \o HttpErrorStr(video_id, key, api)]
    ELSE IF api.kind = "Exception"
    THEN [video_id |-> video_id,
          error |-> <<"Error fetching video metadata: ">> \o api.text]
    ELSE IF api.items = <<>>
    THEN [video_id |-> video_id, error |-> <<"Video not found">>]
    ELSE LET video_info == api.items[1]
             duration_seconds == _parse_duration(video_info.duration)
         IN  IF duration_seconds.kind = "raise"
             THEN [video_id |-> video_id,
                   error |-> <<"Error fetching video metadata: ">>
                             \o duration_seconds.msg]
             ELSE [video_id |-> video_id,
                   video_title |-> video_info.title,
                   channel_name |-> video_info.channelTitle,
                   duration_seconds |-> duration_seconds.value,
                   published_at |-> video_info.publishedAt]

get_video_metadata(video_id, api_key, self_key, api) ==
    LET youtube_api_key == Or(api_key, self_key)
    IN  IF ~ Truthy(youtube_api_key)
        THEN Outcome([video_id |-> video_id], <<>>)
        ELSE Outcome(MetadataFrom(video_id, youtube_api_key, api),
                     <<MetadataCall(video_id, youtube_api_key)>>)

(***************************************************************************)
(* TranscriptService.get_transcript                                        *)
(***************************************************************************)
\* TranscriptList.find_transcript(language_codes): the first requested code
\* the video has a transcript for, NoTranscriptFound when there is none
RECURSIVE find_transcript(_, _)
find_transcript(available, language_codes) ==
    IF language_codes = <<>>
    THEN Raised("NoTranscriptFound", <<"NoTranscriptFound">>)
    ELSE IF Head(language_codes) \in available
    THEN Returned([language_code |-> Head(language_codes), translated |-> FALSE])
    ELSE find_transcript(available, Tail(language_codes))

\* Transcript.translate(language)
translate(transcript, language, translatable) ==
    IF translatable
    THEN Returned([language_code |-> language, translated |-> TRUE])
    ELSE Raised("NotTranslatable", <<"NotTranslatable">>)

\* lines 107-113: the requested language, else any transcript translated
FindOrTranslate(tube, language) ==
    LET wanted == find_transcript(tube.available, <<language>>)
        any    == find_transcript(tube.available, <<>>)
    IN  IF wanted.kind = "return" THEN wanted
        ELSE IF any.kind = "raise" THEN any
        ELSE translate(any.value, language, tube.translatable)

\* what the transcript provider does for the video:
\*   [kind |-> "TranscriptsDisabled"]  list_transcripts raised it
\*   [kind |-> "Exception", text]      list_transcripts raised something else
\*   [kind |-> "list", available, translatable, fetch]
\*        fetch is [kind |-> "Exception", text] or [kind |-> "text", text],
\*        text being the parts joined by " "
get_transcript(video_id, language, tube) ==
    IF tube.kind = "TranscriptsDisabled"
    THEN Raised("ValueError", <<"Transcripts are disabled for this video">>)
    ELSE IF tube.kind = "Exception"
    THEN Raised("ValueError", <<"Error fetching transcript: ">> \o tube.text)
    ELSE LET transcript == FindOrTranslate(tube, language)
         IN  IF transcript.kind = "raise" /\ transcript.exc = "NoTranscriptFound"
             THEN Raised("ValueError", <<"No transcript found for this video">>)
             ELSE IF transcript.kind = "raise"
             THEN Raised("ValueError",
                         <<"Error fetching transcript: ">> \o transcript.msg)
             ELSE IF tube.fetch.kind = "Exception"
             THEN Raised("ValueError",
                         <<"Error fetching transcript: ">> \o tube.fetch.text)
             ELSE Returned([text |-> _clean_transcript(tube.fetch.text),
                            language_code |-> transcript.value.language_code])

\* the calls get_transcript makes to the transcript provider
TranscriptCalls(video_id, language, tube) ==
    <<[to |-> "transcripts.list", id |-> video_id]>>
    \o (IF tube.kind = "list" /\ FindOrTranslate(tube, language).kind = "return"
        THEN <<[to |-> "transcripts.fetch", id |-> video_id,
                language_code |->
                    FindOrTranslate(tube, language).value.language_code]>>
        ELSE <<>>)

(***************************************************************************)
(* TranscriptService.extract_transcript                                    *)
(***************************************************************************)
\* except clauses that let the exception through
TranscriptFailure_Reraise(e) == e

\* the except clauses of extract_transcript
TranscriptFailure(e) ==
    [video_id |-> <<>>,
     error |-> IF e.exc = "ValueError" THEN e.msg
               ELSE <<"Unexpected error: ">> \o e.msg,
     transcript |-> <<>>]

extract_transcript(youtube_url, language, api_key, self_key, api, tube) ==
    LET video_id == extract_video_id(youtube_url)
        metadata == get_video_metadata(video_id.value, api_key, self_key, api)
        fetched  == get_transcript(video_id.value, language, tube)
        tcalls   == TranscriptCalls(video_id.value, language, tube)
    IN  IF video_id.kind = "raise"
        THEN Outcome(TranscriptFailure(video_id), <<>>)
        ELSE IF HasError(metadata.result)
        THEN Outcome(Merge(metadata.result, [transcript |-> <<>>]),
                     metadata.calls)
        ELSE IF fetched.kind = "raise"
        THEN Outcome(TranscriptFailure(fetched), metadata.calls \o tcalls)
        ELSE Outcome(Merge(metadata.result,
                           [transcript |-> fetched.value.text,
                            language |-> fetched.value.language_code]),
                     metadata.calls \o tcalls)

(***************************************************************************)
(* SummaryService                                                          *)
(***************************************************************************)
max_transcript_length == 15000

ToneEnum == {"educational", "inspirational", "professional",
             "conversational", "thought_leader"}
AudienceEnum == {"general", "technical", "executive", "entry_level",
                 "industry_specific"}
VoiceEnum == {"first_person", "third_person"}

\* the prompt, as the values interpolated into the template
_create_summary_prompt(transcript, video_title, tone, audience, min_length, max_length) ==
    [video_title |-> video_title,
     min_length |-> min_length,
     max_length |-> max_length,
     tone |-> tone,
     audience |-> audience,
     transcript |-> IF Len(transcript) > max_transcript_length
                    THEN SubSeq(transcript, 1, max_transcript_length)
                         \o <<"...">>
                    ELSE transcript]

\* s.lstrip("- ")
RECURSIVE LStripDashes(_)
LStripDashes(s) ==
    IF s # <<>> /\ Head(s) \in {"-", " "} THEN LStripDashes(Tail(s)) ELSE s

\* [point.strip().lstrip("- ") for point in lines if point.strip()]
RECURSIVE KeyPoints(_)
KeyPoints(lines) ==
    IF lines = <<>> THEN <<>>
    ELSE IF Strip(Head(lines)) = <<>>
    THEN KeyPoints(Tail(lines))
    ELSE <<LStripDashes(Strip(Head(lines)))>> \o KeyPoints(Tail(lines))

_parse_response(response_text) ==
    LET sections == Split(response_text, "SUMMARY:")
        content  == Strip(sections[2])
        parts    == Split(content, "KEY POINTS:")
    IN  IF Len(sections) > 1
        THEN IF Len(parts) > 1
             THEN [summary |-> Strip(parts[1]),
                   key_points |-> KeyPoints(Split(Strip(parts[2]), "\n"))]
             ELSE [summary |-> content, key_points |-> <<>>]
        ELSE [summary |-> response_text, key_points |-> <<>>]

\* len(s.split()): the number of runs of non-whitespace symbols
RECURSIVE WordCount(_, _)
WordCount(s, i) ==
    IF i > Len(s) THEN 0
    ELSE IF IsSpace(s[i]) THEN WordCount(s, i + 1)
    ELSE 1 + WordCount(s, RunEnd(s, i, {c \in Range(s) : ~ IsSpace(c)}) + 1)

\* client.chat.completions.create(...) with the key and the prompt
ChatCall(key, model, prompt) ==
    [to |-> "openai.chat.completions", key |-> key, model |-> model,
     prompt |-> prompt]

\* what the language model does: [kind |-> "Exception", text] or
\* [kind |-> "reply", content]
\* a generate_summary that calls the model a second time when it fails
generate_summary_Retry(transcript, video_title, tone, audience, min_length, max_length, api_key, self_key, llm) ==
    LET openai_api_key == Or(api_key, self_key)
        prompt == _create_summary_prompt(transcript, video_title, tone,
                                         audience, min_length, max_length)
        call   == <<ChatCall(openai_api_key, "gpt-4", prompt)>>
        parsed == _parse_response(Strip(llm.content))
    IN  IF ~ Truthy(openai_api_key)
        THEN Outcome([error |-> <<"OpenAI API key not configured">>,
                      summary |-> <<>>, key_points |-> <<>>], <<>>)
        ELSE IF transcript = <<>>
        THEN Outcome([error |-> <<"Empty transcript provided">>,
                      summary |-> <<>>, key_points |-> <<>>], <<>>)
        ELSE IF llm.kind = "Exception"
        THEN Outcome([error |-> <<"Error generating summary: ">> \o llm.text,
                      summary |-> <<>>, key_points |-> <<>>], call \o call)
        ELSE Outcome([summary |-> parsed.summary,
                      key_points |-> parsed.key_points,
                      word_count |-> WordCount(parsed.summary, 1)], call)

generate_summary(transcript, video_title, tone, audience, min_length, max_length, api_key, self_key, llm) ==
    LET openai_api_key == Or(api_key, self_key)
        prompt == _create_summary_prompt(transcript, video_title, tone,
                                         audience, min_length, max_length)
        call   == <<ChatCall(openai_api_key, "gpt-4", prompt)>>
        parsed == _parse_response(Strip(llm.content))
    IN  IF ~ Truthy(openai_api_key)
        THEN Outcome([error |-> <<"OpenAI API key not configured">>,
                      summary |-> <<>>, key_points |-> <<>>], <<>>)
        ELSE IF transcript = <<>>
        THEN Outcome([error |-> <<"Empty transcript provided">>,
                      summary |-> <<>>, key_points |-> <<>>], <<>>)
        ELSE IF llm.kind = "Exception"
        THEN Outcome([error |-> <<"Error generating summary: ">> \o llm.text,
                      summary |-> <<>>, key_points |-> <<>>], call)
        ELSE Outcome([summary |-> parsed.summary,
                      key_points |-> parsed.key_points,
                      word_count |-> WordCount(parsed.summary, 1)], call)

(***************************************************************************)
(* PostGenerationService                                                   *)
(***************************************************************************)
\* tag.strip('#')
RECURSIVE StripHash(_)
StripHash(tag) ==
    IF tag # <<>> /\ Head(tag) = "#" THEN StripHash(Tail(tag))
    ELSE IF tag # <<>> /\ tag[Len(tag)] = "#"
    THEN StripHash(SubSeq(tag, 1, Len(tag) - 1))
    ELSE tag

\* the prompt, as the values interpolated into the template
_create_post_prompt(summary, video_title, video_url, speaker_name, hashtags, tone, voice, audience, include_call_to_action, max_length) ==
    [video_title |-> video_title,
     video_url |-> video_url,
     speaker_str |-> IF Truthy(speaker_name) THEN speaker_name ELSE "",
     max_length |-> max_length,
     tone |-> tone,
     voice |-> voice,
     audience |-> audience,
     hashtag_str |-> [i \in 1..Len(hashtags) |-> <<"#">> \o StripHash(hashtags[i])],
     cta_str |-> include_call_to_action,
     summary |-> summary]

\* an extraction that keeps only the first occurrence of each hashtag
RECURSIVE _extract_hashtags_Unique(_, _)
_extract_hashtags_Unique(post_content, i) ==
    IF i > Len(post_content) THEN <<>>
    ELSE LET e == RunEnd(post_content, i + 1, WordSym)
             tag == SubSeq(post_content, i, e)
             Other(t) == t # tag
         IN  IF post_content[i] = "#" /\ e >= i + 1
             THEN <<tag>> \o SelectSeq(_extract_hashtags_Unique(post_content,
                                                                 e + 1), Other)
             ELSE _extract_hashtags_Unique(post_content, i + 1)

\* re.findall(r'#(\w+)', post_content), each match with its '#' put back
RECURSIVE _extract_hashtags(_, _)
_extract_hashtags(post_content, i) ==
    IF i > Len(post_content) THEN <<>>
    ELSE LET e == RunEnd(post_content, i + 1, WordSym)
         IN  IF post_content[i] = "#" /\ e >= i + 1
             THEN <<SubSeq(post_content, i, e)>>
                  \o _extract_hashtags(post_content, e + 1)
             ELSE _extract_hashtags(post_content, i + 1)

\* lines 85-90: character_count / 1325 minutes
EstimatedReadTime(character_count) ==
    IF character_count < 1325
    THEN [text |-> "Less than a minute"]
    ELSE [text |-> "About", minutes |-> character_count \div 1325,
          plural |-> (character_count \div 1325) > 1]

\* a generate_post that tests for the empty summary before the key
generate_post_EmptyFirst(summary, video_title, video_url, speaker_name, hashtags, tone, voice, audience, include_call_to_action, max_length, api_key, self_key, llm) ==
    LET openai_api_key == Or(api_key, self_key)
        prompt == _create_post_prompt(summary, video_title, video_url,
                                      speaker_name, hashtags, tone, voice,
                                      audience, include_call_to_action,
                                      max_length)
        call   == <<ChatCall(openai_api_key, "gpt-4", prompt)>>
        post_content == Strip(llm.content)
    IN  IF summary = <<>>
        THEN Outcome([error |-> <<"Empty summary provided">>,
                      post_content |-> <<>>], <<>>)
        ELSE IF ~ Truthy(openai_api_key)
        THEN Outcome([error |-> <<"OpenAI API key not configured">>,
                      post_content |-> <<>>], <<>>)
        ELSE IF llm.kind = "Exception"
        THEN Outcome([error |-> <<"Error generating LinkedIn post: ">>
                                \o llm.text,
                      post_content |-> <<>>], call)
        ELSE Outcome([post_content |-> post_content,
                      character_count |-> Len(post_content),
                      estimated_read_time |->
                          EstimatedReadTime(Len(post_content)),
                      hashtags_used |-> _extract_hashtags(post_content, 1)],
                     call)

generate_post(summary, video_title, video_url, speaker_name, hashtags, tone, voice, audience, include_call_to_action, max_length, api_key, self_key, llm) ==
    LET openai_api_key == Or(api_key, self_key)
        prompt == _create_post_prompt(summary, video_title, video_url,
                                      speaker_name, hashtags, tone, voice,
                                      audience, include_call_to_action,
                                      max_length)
        call   == <<ChatCall(openai_api_key, "gpt-4", prompt)>>
        post_content == Strip(llm.content)
    IN  IF ~ Truthy(openai_api_key)
        THEN Outcome([error |-> <<"OpenAI API key not configured">>,
                      post_content |-> <<>>], <<>>)
        ELSE IF summary = <<>>
        THEN Outcome([error |-> <<"Empty summary provided">>,
                      post_content |-> <<>>], <<>>)
        ELSE IF llm.kind = "Exception"
        THEN Outcome([error |-> <<"Error generating LinkedIn post: ">>
                                \o llm.text,
                      post_content |-> <<>>], call)
        ELSE Outcome([post_content |-> post_content,
                      character_count |-> Len(post_content),
                      estimated_read_time |->
                          EstimatedReadTime(Len(post_content)),
                      hashtags_used |-> _extract_hashtags(post_content, 1)],
                     call)

(***************************************************************************)
(* OutputService.format_output                                             *)
(***************************************************************************)
\* a formatter that builds the JSON object whatever the format
format_output_TextAsJson(post_content, format) ==
    Outcome([content |-> [post_content |-> post_content,
                          character_count |-> Len(post_content)],
             format |-> format], <<>>)

format_output(post_content, format) ==
    IF format = "json"
    THEN Outcome([content |-> [post_content |-> post_content,
                               character_count |-> Len(post_content)],
                  format |-> format], <<>>)
    ELSE Outcome([content |-> post_content, format |-> format], <<>>)

(***************************************************************************)
(* Route handlers (app/routers)                                            *)
(***************************************************************************)
\* raise HTTPException(status_code=..., detail=...)
HTTPException(status_code, detail) ==
    [kind |-> "raise", exc |-> "HTTPException",
     status_code |-> status_code, detail |-> detail]

\* the classes an "except Exception" clause catches: every exception raised
\* here, starlette's HTTPException included
ExceptionSubclasses == {"HTTPException", "ValueError", "KeyError",
                        "TypeError", "RuntimeError"}

\* str(e): starlette's HTTPException prints "<status_code>: <detail>"
ExcStr(e) ==
    IF e.exc = "HTTPException" THEN <<e.status_code, ": ">> \o e.detail
    ELSE e.msg

\* try: <body> except Exception as e:
\*     raise HTTPException(500, f"Internal server error: {str(e)}")
ExceptAsInternalError(body) ==
    IF body.kind = "raise" /\ body.exc \in ExceptionSubclasses
    THEN HTTPException("500", <<"Internal server error: ">> \o ExcStr(body))
    ELSE body

\* the body of the try block of each handler: the 400 for a result that
\* carries an error, else the response model built from the result
RaiseOrReturn(res, model) ==
    IF HasError(res) THEN HTTPException("400", res["error"])
    ELSE Returned(model)

\* what FastAPI sends for the handler's outcome
HttpResponse(handled) ==
    IF handled.kind = "raise"
    THEN [status |-> handled.status_code, detail |-> handled.detail]
    ELSE [status |-> "200", body |-> handled.value]

\* FastAPI's reply to a body that fails the request model
Unprocessable == [status |-> "422", detail |-> <<"validation error">>]

\* str(request.youtube_url): pydantic's HttpUrl gives an empty path as "/"
HttpUrlStr(u) ==
    IF Len(u) = 2 THEN u \o <<"/">>
    ELSE IF u[3] = "?" THEN SubSeq(u, 1, 2) \o <<"/">> \o From(u, 2)
    ELSE u

NoneSeq == <<NoneStr>>

\* routers/transcript.py
TranscriptResponse(res, req) ==
    [video_id |-> Get(res, "video_id", <<>>),
     video_title |-> Get(res, "video_title", <<"Unknown Title">>),
     transcript |-> Get(res, "transcript", <<>>),
     language |-> Get(res, "language", req.language),
     duration_seconds |-> Get(res, "duration_seconds", 0),
     channel_name |-> Get(res, "channel_name", NoneSeq),
     error |-> Get(res, "error", NoneSeq)]

extract_transcript_route(res, req) ==
    ExceptAsInternalError(RaiseOrReturn(res, TranscriptResponse(res, req)))

\* routers/summary.py
SummaryResponse(res) ==
    [summary |-> Get(res, "summary", <<>>),
     word_count |-> Get(res, "word_count", 0),
     key_points |-> Get(res, "key_points", <<>>)]

generate_summary_route(res) ==
    ExceptAsInternalError(RaiseOrReturn(res, SummaryResponse(res)))

\* routers/post_generation.py
PostGenerationResponse(res) ==
    [post_content |-> Get(res, "post_content", <<>>),
     character_count |-> Get(res, "character_count", 0),
     estimated_read_time |-> Get(res, "estimated_read_time", [text |-> ""]),
     hashtags_used |-> Get(res, "hashtags_used", <<>>)]

generate_post_route(res) ==
    ExceptAsInternalError(RaiseOrReturn(res, PostGenerationResponse(res)))

\* routers/output.py
OutputFormat == {"json", "text"}

OutputResponse(res, req) ==
    [content |-> Get(res, "content", <<>>),
     format |-> Get(res, "format", req.format)]

format_output_route(res, req) ==
    ExceptAsInternalError(RaiseOrReturn(res, OutputResponse(res, req)))

(***************************************************************************)
(* Requests and collaborators of the HTTP API                              *)
(***************************************************************************)
SampleUrls ==
    {<<"https://", "youtu.be", "/", "a">>,
     <<"https://", "youtu.be", "/", "a", "/", "a">>,
     <<"https://", "youtu.be">>,
     <<"https://", "www.youtube.com", "/", "watch", "?", "v", "=", "v">>,
     <<"https://", "youtube.com", "/", "watch">>,
     <<"https://", "youtube.com", "/", "embed", "/", "a">>,
     <<"https://", "youtube.com", "/", "v", "/", "a">>,
     <<"https://", "youtube.com", "/", "a">>,
     <<"https://", "example.com", "/", "a">>}

Languages == {"en", "de"}

\* keys: of the process (K0), of a request (K1), none, empty
EnvKeys == {NoneStr, "K0"}
RequestKeys == {NoneStr, "", "K1"}

\* what the YouTube Data API may do
ApiOutcomes ==
    {[kind |-> "HttpError", status |-> "403", reason |-> "quotaExceeded"],
     [kind |-> "Exception", text |-> <<"timed out">>],
     [kind |-> "items", items |-> <<>>]}
    \cup {[kind |-> "items",
           items |-> <<[title |-> <<"t">>, channelTitle |-> <<"c">>,
                        publishedAt |-> <<"2024">>, duration |-> d]>>] :
          d \in {<<"P", "T", "1", "M">>, <<"P", "1", "D", "T", "2", "H">>}}

\* the joined text of a fetched transcript
SampleTexts == {<<"a", " ", "a">>, <<"a", ":", "a", " ", "[", " ", ".">>}

\* what the transcript provider may do
TubeOutcomes ==
    {[kind |-> "TranscriptsDisabled"],
     [kind |-> "Exception", text |-> <<"video unavailable">>]}
    \cup {[kind |-> "list", available |-> a, translatable |-> tr, fetch |-> f] :
          a \in SUBSET Languages, tr \in BOOLEAN,
          f \in {[kind |-> "Exception", text |-> <<"connection reset">>]}
                \cup {[kind |-> "text", text |-> t] : t \in SampleTexts}}

\* replies of the language model to a summary prompt and to a post prompt
SampleSummaryReplies ==
    {<<"SUMMARY:", "\n", "a", " ", "a", "\n", "KEY POINTS:", "\n",
       "-", " ", "a", "\n", "-", " ", "a">>,
     <<"SUMMARY:", " ", "a">>,
     <<"a", " ", "a">>}

SamplePostReplies ==
    {<<"a", " ", "#", "a", " ", "#", "a", ".">>, <<" ", "a", "\n">>}

LlmOutcomes(replies) ==
    {[kind |-> "Exception", text |-> <<"rate limit">>]}
    \cup {[kind |-> "reply", content |-> c] : c \in replies}

(***************************************************************************)
(* Specification of the HTTP API: one request handled                      *)
(***************************************************************************)
InitHttp ==
    /\ pc = "idle"
    /\ env \in [YOUTUBE_API_KEY : EnvKeys, OPENAI_API_KEY : EnvKeys]
    /\ request = Pending /\ result = Pending
    /\ calls = <<>> /\ response = Pending
    /\ IdlePure
    /\ IdleTool /\ IdleText /\ IdleSvc

Respond(req, served, handled) ==
    /\ request' = req
    /\ result' = served.result
    /\ calls' = served.calls
    /\ response' = HttpResponse(handled)
    /\ pc' = "responded"
    /\ UNCHANGED <<env, url, dur, secs, hms, text, once, twice, toolVars, textVars, svcVars>>

\* the values of format that GET /list-tools and the command-tool argument
\* description name for format_output
AdvertisedFormats == {"json", "text", "markdown", "html"}

\* POST /api/v1/transcript
PostTranscript ==
    /\ pc = "idle"
    /\ \E u \in SampleUrls, l \in Languages, k \in RequestKeys,
          api \in ApiOutcomes, tube \in TubeOutcomes :
         LET req == [endpoint |-> "/api/v1/transcript", youtube_url |-> u,
                     language |-> l, youtube_api_key |-> k]
             served == extract_transcript(HttpUrlStr(u), l, k,
                                          env.YOUTUBE_API_KEY, api, tube)
         IN  /\ Respond(req, served,
                        extract_transcript_route(served.result, req))
             /\ vid' = extract_video_id(HttpUrlStr(u))

\* POST /api/v1/summarize
PostSummarize ==
    /\ pc = "idle"
    /\ \E t \in {<<>>, <<"a", " ", "a">>}, tone \in {"professional", "educational"},
          k \in RequestKeys, llm \in LlmOutcomes(SampleSummaryReplies) :
         LET req == [endpoint |-> "/api/v1/summarize", transcript |-> t,
                     video_title |-> <<"t">>, tone |-> tone,
                     audience |-> "general", max_length |-> 250,
                     min_length |-> 150, openai_api_key |-> k]
             served == generate_summary(t, req.video_title, tone, req.audience,
                                        req.min_length, req.max_length, k,
                                        env.OPENAI_API_KEY, llm)
         IN  /\ Respond(req, served, generate_summary_route(served.result))
             /\ UNCHANGED vid

\* POST /api/v1/generate-post
PostGeneratePost ==
    /\ pc = "idle"
    /\ \E sm \in {<<>>, <<"a", " ", "a">>}, tags \in {<<>>, << <<"#", "a">> >>},
          cta \in BOOLEAN, k \in RequestKeys,
          llm \in LlmOutcomes(SamplePostReplies) :
         LET req == [endpoint |-> "/api/v1/generate-post", summary |-> sm,
                     video_title |-> <<"t">>,
                     video_url |-> <<"https://", "youtu.be", "/", "a">>,
                     speaker_name |-> NoneStr, hashtags |-> tags,
                     tone |-> "professional", voice |-> "first_person",
                     audience |-> "general", include_call_to_action |-> cta,
                     max_length |-> 1200, openai_api_key |-> k]
             served == generate_post(sm, req.video_title,
                                     HttpUrlStr(req.video_url),
                                     req.speaker_name, tags, req.tone,
                                     req.voice, req.audience, cta,
                                     req.max_length, k, env.OPENAI_API_KEY,
                                     llm)
         IN  /\ Respond(req, served, generate_post_route(served.result))
             /\ UNCHANGED vid

\* POST /api/v1/output
PostOutput ==
    /\ pc = "idle"
    /\ \E c \in {<<>>, <<"a">>, <<"a", " ", "#", "a">>},
          f \in AdvertisedFormats :
         LET req == [endpoint |-> "/api/v1/output", post_content |-> c,
                     format |-> f]
             served == format_output(c, f)
         IN  IF f \in OutputFormat
             THEN /\ Respond(req, served,
                             format_output_route(served.result, req))
                  /\ UNCHANGED vid
             ELSE /\ request' = req
                  /\ response' = Unprocessable
                  /\ pc' = "responded"
                  /\ UNCHANGED <<env, result, calls, pureVars, toolVars, textVars, svcVars>>

NextHttp == PostTranscript \/ PostSummarize \/ PostGeneratePost \/ PostOutput

SpecHttp == InitHttp /\ [][NextHttp]_vars

(***************************************************************************)
(* Properties of the HTTP API                                              *)
(***************************************************************************)
\* C1: when the service returns a result with a non-empty error, the
\* endpoint answers 400 with that message; 500 is not the answer to such a
\* validation-style failure.
C1_ServiceErrorIs400 ==
    pc = "responded" /\ HasError(result) =>
      /\ response.status = "400"
      /\ response.detail = result["error"]

\* a /watch URL of a youtube.com host whose query has no v parameter
WatchWithoutV(u) ==
    /\ u[2] \in RecognizedHosts
    /\ urlparse(u).path = <<"/", "watch">>
    /\ parse_qs(urlparse(u).query, <<"v">>) = <<>>

\* C6: for a /watch URL without a v parameter extract_video_id raises the
\* invalid-URL ValueError, and extract_transcript reports that error.
C6_WatchWithoutVIsInvalidUrl ==
    /\ pc = "responded"
    /\ request.endpoint = "/api/v1/transcript"
    /\ WatchWithoutV(request.youtube_url)
    => /\ vid = Raised("ValueError",
                       <<"Could not extract video ID from URL: ">>
                       \o request.youtube_url)
       /\ result["error"] = <<"Could not extract video ID from URL: ">>
                            \o request.youtube_url

(***************************************************************************)
(* Command-tool front-end (yt_to_linkedin_mcp)                             *)
(***************************************************************************)
\* ToolArg(name, required, default); NoDefault is default=None
NoDefault == NoneSeq
ToolArg(name, required, default) ==
    [name |-> name, required |-> required, default |-> default]

TOOLS ==
    [extract_transcript |->
        <<ToolArg("youtube_url", TRUE, NoDefault),
          ToolArg("language", FALSE, <<"en">>),
          ToolArg("youtube_api_key", FALSE, NoDefault)>>,
     generate_summary |->
        <<ToolArg("transcript", TRUE, NoDefault),
          ToolArg("video_title", TRUE, NoDefault),
          ToolArg("tone", TRUE, NoDefault),
          ToolArg("audience", TRUE, NoDefault),
          ToolArg("max_length", FALSE, <<"250">>),
          ToolArg("min_length", FALSE, <<"150">>),
          ToolArg("openai_api_key", FALSE, NoDefault)>>,
     generate_post |->
        <<ToolArg("summary", TRUE, NoDefault),
          ToolArg("video_title", TRUE, NoDefault),
          ToolArg("video_url", TRUE, NoDefault),
          ToolArg("tone", TRUE, NoDefault),
          ToolArg("voice", TRUE, NoDefault),
          ToolArg("audience", TRUE, NoDefault),
          ToolArg("speaker_name", FALSE, NoDefault),
          ToolArg("hashtags", FALSE, <<"[]">>),
          ToolArg("include_call_to_action", FALSE, <<"True">>),
          ToolArg("max_length", FALSE, <<"1200">>),
          ToolArg("openai_api_key", FALSE, NoDefault)>>,
     format_output |->
        <<ToolArg("post_content", TRUE, NoDefault),
          ToolArg("format", TRUE, NoDefault)>>]

\* TOOL_MAP = {tool.name: tool for tool in TOOLS}
TOOL_MAP == TOOLS

\* the empty dict
EmptyDict == [k \in {} |-> NoneSeq]

\* tool_args: the loop over tool.args from the i-th on, result being the
\* dict built so far
RECURSIVE ToolArgsFrom(_, _, _, _)
ToolArgsFrom(args, i, kwargs, res) ==
    IF i > Len(args) THEN Returned(res)
    ELSE IF args[i].name \in DOMAIN kwargs
    THEN ToolArgsFrom(args, i + 1, kwargs,
                      (args[i].name :> kwargs[args[i].name]) @@ res)
    ELSE IF args[i].required
    THEN Raised("ValueError", <<"Missing required argument: ", args[i].name>>)
    ELSE IF args[i].default # NoDefault
    THEN ToolArgsFrom(args, i + 1, kwargs,
                      (args[i].name :> args[i].default) @@ res)
    ELSE ToolArgsFrom(args, i + 1, kwargs, res)

tool_args(tool, kwargs) == ToolArgsFrom(tool, 1, kwargs, EmptyDict)

\* client.post(url, json=...) and the JSON body of each branch
Post(to, json) == [url |-> to, json |-> json]

TranscriptJson(args) ==
    [youtube_url |-> args["youtube_url"],
     language |-> Get(args, "language", <<"en">>),
     youtube_api_key |-> Get(args, "youtube_api_key", NoneSeq)]

SummaryJson(args) ==
    [transcript |-> args["transcript"],
     video_title |-> args["video_title"],
     tone |-> args["tone"],
     audience |-> args["audience"],
     max_length |-> Get(args, "max_length", <<"250">>),
     min_length |-> Get(args, "min_length", <<"150">>),
     openai_api_key |-> Get(args, "openai_api_key", NoneSeq)]

PostJson(args) ==
    [summary |-> args["summary"],
     video_title |-> args["video_title"],
     video_url |-> args["video_url"],
     tone |-> args["tone"],
     voice |-> args["voice"],
     audience |-> args["audience"],
     speaker_name |-> Get(args, "speaker_name", NoneSeq),
     hashtags |-> Get(args, "hashtags", <<"[]">>),
     include_call_to_action |-> Get(args, "include_call_to_action", <<"True">>),
     max_length |-> Get(args, "max_length", <<"1200">>),
     openai_api_key |-> Get(args, "openai_api_key", NoneSeq)]

OutputJson(args) ==
    [post_content |-> args["post_content"], format |-> args["format"]]

\* [TextContent(json.dumps(result, indent=2))]
TextContent(json) == [type |-> "text", text |-> json]

\* tool_runner: answer is what the HTTP API replies to the POST
tool_runner(args, answer) ==
    LET tool_name == Get(args, "tool_name", NoneSeq)
    IN  IF tool_name = <<"extract_transcript">>
        THEN [returned |-> Returned(<<TextContent(answer)>>),
              posts |-> <<Post("http://localhost:8000/api/v1/transcript",
                               TranscriptJson(args))>>]
        ELSE IF tool_name = <<"generate_summary">>
        THEN [returned |-> Returned(<<TextContent(answer)>>),
              posts |-> <<Post("http://localhost:8000/api/v1/summarize",
                               SummaryJson(args))>>]
        ELSE IF tool_name = <<"generate_post">>
        THEN [returned |-> Returned(<<TextContent(answer)>>),
              posts |-> <<Post("http://localhost:8000/api/v1/generate-post",
                               PostJson(args))>>]
        ELSE IF tool_name = <<"format_output">>
        THEN [returned |-> Returned(<<TextContent(answer)>>),
              posts |-> <<Post("http://localhost:8000/api/v1/output",
                               OutputJson(args))>>]
        ELSE [returned |->
                  Returned(<<TextContent(<<"{\"error\": \"Unknown tool: ">>
                                         \o tool_name \o <<"\"}">>)>>),
              posts |-> <<>>]

\* call_tool; arguments is a dict, or NotADict
NotADict == [kind |-> "list"]

call_tool(name, arguments, answer) ==
    LET tool == TOOL_MAP[name]
        args == tool_args(tool, ("tool_name" :> <<name>>) @@ arguments.dict)
        ran  == tool_runner(args.value, answer)
    IN  IF arguments.kind # "dict"
        THEN [returned |-> Raised("TypeError", <<"arguments must be dictionary">>),
              posts |-> <<>>]
        ELSE IF name \notin DOMAIN TOOL_MAP
        THEN [returned |-> Raised("ValueError", <<"Unknown tool: ", name>>),
              posts |-> <<>>]
        ELSE IF args.kind = "raise"
        THEN [returned |-> Raised("RuntimeError",
                                  <<"Caught Exception. Error: ">> \o args.msg),
              posts |-> <<>>]
        ELSE ran

(***************************************************************************)
(* Specification of the command-tool front-end: one call                   *)
(***************************************************************************)
ToolNames == {"extract_transcript", "generate_summary", "generate_post",
              "format_output"}

\* the names of the arguments of a tool
ArgNames(name) == {TOOLS[name][i].name : i \in 1..Len(TOOLS[name])}

\* a dict giving each of the names the caller's value for it
Supplied(names) == [kind |-> "dict", dict |-> [n \in names |-> <<"given ", n>>]]

InitTool ==
    /\ pc = "idle"
    /\ IdlePure
    /\ IdleHttp

CallTool ==
    /\ pc = "idle"
    /\ \E name \in ToolNames \cup {"bogus"},
          answer \in {<<"{\"detail\": ...}">>, <<"{...}">>} :
         \E arguments \in {NotADict}
                \cup {Supplied(ns) :
                        ns \in SUBSET (IF name \in ToolNames
                                       THEN ArgNames(name) ELSE {})} :
           /\ toolcall' = [name |-> name, arguments |-> arguments]
           /\ reply' = answer
           /\ returned' = call_tool(name, arguments, answer).returned
           /\ posts' = call_tool(name, arguments, answer).posts
    /\ pc' = "called"
    /\ UNCHANGED <<pureVars, httpVars, textVars, svcVars>>

NextTool == CallTool

SpecTool == InitTool /\ [][NextTool]_vars

(***************************************************************************)
(* Properties of the command-tool front-end                                *)
(***************************************************************************)
\* the /api/v1 endpoint matching a tool
EndpointOf(name) ==
    CASE name = "extract_transcript" -> "http://localhost:8000/api/v1/transcript"
      [] name = "generate_summary" -> "http://localhost:8000/api/v1/summarize"
      [] name = "generate_post" -> "http://localhost:8000/api/v1/generate-post"
      [] name = "format_output" -> "http://localhost:8000/api/v1/output"

\* the caller's arguments, an omitted optional one replaced by its default
WithDefaults(name, given) ==
    [n \in ArgNames(name) |->
        IF n \in DOMAIN given THEN given[n]
        ELSE (CHOOSE a \in Range(TOOLS[name]) : a.name = n).default]

RequiredGiven(name, given) ==
    \A a \in Range(TOOLS[name]) : a.required => a.name \in DOMAIN given

\* C2: call_tool of one of the four tools with every required argument
\* present POSTs those arguments (defaults for omitted optional ones) to the
\* matching /api/v1 endpoint and returns the endpoint's reply as text.
C2_ToolCallPostsToEndpoint ==
    /\ pc = "called"
    /\ toolcall.name \in ToolNames
    /\ toolcall.arguments.kind = "dict"
    /\ RequiredGiven(toolcall.name, toolcall.arguments.dict)
    => /\ Len(posts) = 1
       /\ posts[1].url = EndpointOf(toolcall.name)
       /\ posts[1].json = WithDefaults(toolcall.name, toolcall.arguments.dict)
       /\ returned = Returned(<<TextContent(reply)>>)

(***************************************************************************)
(* Specification of the reply parser: SummaryService._parse_response       *)
(***************************************************************************)
\* the two markers are literals the code splits on, taken as one symbol
ReplySym == {"SUMMARY:", "KEY POINTS:", "a", " ", "\n", "-"}

InitParse ==
    /\ pc = "start"
    /\ llmtext \in SeqUpTo(ReplySym, MaxReply)
    /\ sectioned = Pending
    /\ posttext = <<>> /\ hashtagged = Pending
    /\ charcount = 0 /\ readtime = Pending
    /\ IdlePure /\ IdleRequest /\ IdleTool /\ IdleSvc

\* summary, key_points = self._parse_response(response_text)
ParseResponse ==
    /\ pc = "start"
    /\ sectioned' = Returned(_parse_response(llmtext))
    /\ pc' = "parsed"
    /\ UNCHANGED <<pureVars, httpVars, toolVars, svcVars,
                   llmtext, posttext, hashtagged, charcount, readtime>>

NextParse == ParseResponse

SpecParse == InitParse /\ [][NextParse]_vars

(***************************************************************************)
(* Properties of _parse_response                                           *)
(***************************************************************************)
Count(s, c) == Cardinality({i \in 1..Len(s) : s[i] = c})

\* what precedes / follows the first occurrence of c in s
Before(s, c) == SubSeq(s, 1, FirstIn(s, {c}, 1) - 1)
After(s, c) == From(s, FirstIn(s, {c}, 1))

\* a line without its bullet: one leading "-" and the space after it
DropBullet(l) ==
    IF StartsWith(l, <<"-", " ">>) THEN From(l, 2)
    ELSE IF StartsWith(l, <<"-">>) THEN From(l, 1)
    ELSE l

\* the non-blank lines, trimmed and without their bullets, in order
RECURSIVE Bulleted(_)
Bulleted(lines) ==
    IF lines = <<>> THEN <<>>
    ELSE IF Strip(Head(lines)) = <<>> THEN Bulleted(Tail(lines))
    ELSE <<DropBullet(Strip(Head(lines)))>> \o Bulleted(Tail(lines))

OneOfEachInOrder(s) ==
    /\ Count(s, "SUMMARY:") = 1
    /\ Count(s, "KEY POINTS:") = 1
    /\ FirstIn(s, {"SUMMARY:"}, 1) < FirstIn(s, {"KEY POINTS:"}, 1)

\* C12: for a reply with SUMMARY: followed later by KEY POINTS:, the summary
\* is the trimmed text between the markers and the key points are the lines
\* after KEY POINTS:, in order, trimmed, with only one leading "-" and the
\* space after it removed.
C12_SectionsAndBullets ==
    pc = "parsed" /\ OneOfEachInOrder(llmtext) =>
        sectioned = Returned(
            [summary |-> Strip(Before(After(llmtext, "SUMMARY:"), "KEY POINTS:")),
             key_points |-> Bulleted(Split(Strip(After(llmtext, "KEY POINTS:")),
                                           "\n"))])

\* C13: _parse_response never raises; without SUMMARY: the whole input is
\* the summary, with SUMMARY: but without KEY POINTS: the trimmed remainder
\* after SUMMARY: is the summary; the key points are empty in both cases.
C13_MissingMarkersTolerated ==
    pc = "parsed" =>
        /\ sectioned.kind = "return"
        /\ Count(llmtext, "SUMMARY:") = 0 =>
               sectioned.value = [summary |-> llmtext, key_points |-> <<>>]
        /\ Count(llmtext, "SUMMARY:") > 0 /\ Count(llmtext, "KEY POINTS:") = 0 =>
               sectioned.value = [summary |-> Strip(After(llmtext, "SUMMARY:")),
                                  key_points |-> <<>>]

\* C14: with repeated markers the parser works on everything after the first
\* SUMMARY: and, within that, on everything after the first KEY POINTS:.
C14_RepeatedMarkersKeepText ==
    pc = "parsed" /\ Count(llmtext, "SUMMARY:") > 0 =>
        LET content == Strip(After(llmtext, "SUMMARY:"))
        IN  sectioned.value =
                IF Count(content, "KEY POINTS:") > 0
                THEN [summary |-> Strip(Before(content, "KEY POINTS:")),
                      key_points |-> KeyPoints(Split(Strip(After(content,
                                                    "KEY POINTS:")), "\n"))]
                ELSE [summary |-> content, key_points |-> <<>>]

(***************************************************************************)
(* Specification of the hashtag extractor: _extract_hashtags               *)
(***************************************************************************)
TagSym == {"#", "a", "A", "!", " "}

InitTags ==
    /\ pc = "start"
    /\ posttext \in SeqUpTo(TagSym, MaxPost)
    /\ hashtagged = Pending
    /\ llmtext = <<>> /\ sectioned = Pending
    /\ charcount = 0 /\ readtime = Pending
    /\ IdlePure /\ IdleRequest /\ IdleTool /\ IdleSvc

\* hashtags_used = self._extract_hashtags(post_content)
ExtractHashtags ==
    /\ pc = "start"
    /\ hashtagged' = Returned(_extract_hashtags(posttext, 1))
    /\ pc' = "extracted"
    /\ UNCHANGED <<pureVars, httpVars, toolVars, svcVars,
                   llmtext, sectioned, posttext, charcount, readtime>>

NextTags == ExtractHashtags

SpecTags == InitTags /\ [][NextTags]_vars

(***************************************************************************)
(* Properties of _extract_hashtags                                         *)
(***************************************************************************)
\* the positions where a '#' is followed by a word character
MatchStarts(s) ==
    {i \in 1..Len(s) : s[i] = "#" /\ i < Len(s) /\ s[i + 1] \in WordSym}

\* the k-th match start from the left
KthStart(s, k) ==
    CHOOSE i \in MatchStarts(s) :
        Cardinality({j \in MatchStarts(s) : j < i}) = k - 1

\* the last word character of the match that starts at i
MatchEnd(s, i) ==
    CHOOSE j \in (i + 1)..Len(s) :
        /\ \A k \in (i + 1)..j : s[k] \in WordSym
        /\ j = Len(s) \/ s[j + 1] \notin WordSym

\* C15: _extract_hashtags returns one entry '#'+token per match of '#'
\* followed by word characters, in left-to-right order, case preserved,
\* trailing punctuation excluded, duplicates kept.
C15_OneEntryPerMatch ==
    pc = "extracted" =>
        /\ hashtagged.kind = "return"
        /\ Len(hashtagged.value) = Cardinality(MatchStarts(posttext))
        /\ \A k \in 1..Len(hashtagged.value) :
               hashtagged.value[k] =
                   SubSeq(posttext, KthStart(posttext, k),
                          MatchEnd(posttext, KthStart(posttext, k)))

\* "#A#A!#a" has given ["#A", "#A", "#a"]
C15_Witness ==
    /\ pc = "extracted"
    /\ posttext = <<"#", "A", "#", "A", "!", "#", "a">>
    /\ hashtagged = Returned(<< <<"#", "A">>, <<"#", "A">>, <<"#", "a">> >>)

(***************************************************************************)
(* Properties of the service results                                       *)
(***************************************************************************)
\* t occurs in s as a run of consecutive symbols
OccursIn(t, s) ==
    \E i \in 1..(Len(s) - Len(t) + 1) : SubSeq(s, i, i + Len(t) - 1) = t

\* C16: in every successful generate_post result hashtags_used holds unique
\* '#token' strings that appear in post_content, and character_count is the
\* length of post_content.
C16_HashtagsUniqueAndCounted ==
    /\ pc = "responded"
    /\ request.endpoint = "/api/v1/generate-post"
    /\ ~ HasError(result)
    => /\ \A i, j \in 1..Len(result.hashtags_used) :
              i # j => result.hashtags_used[i] # result.hashtags_used[j]
       /\ \A i \in 1..Len(result.hashtags_used) :
              /\ Head(result.hashtags_used[i]) = "#"
              /\ OccursIn(result.hashtags_used[i], result.post_content)
       /\ result.character_count = Len(result.post_content)

(***************************************************************************)
(* Specification of the services: one method called directly               *)
(***************************************************************************)
InitService ==
    /\ pc = "idle"
    /\ env \in [YOUTUBE_API_KEY : EnvKeys, OPENAI_API_KEY : EnvKeys]
    /\ request = Pending /\ result = Pending
    /\ calls = <<>> /\ response = Pending
    /\ svccall = Pending /\ svcresult = Pending
    /\ openai = [api_key |-> NoneStr] /\ inflight = <<>>
    /\ IdlePure /\ IdleTool /\ IdleText

\* the method has returned what served holds
Return(call, served) ==
    /\ svccall' = call
    /\ svcresult' = served.result
    /\ calls' = served.calls
    /\ pc' = "returned"
    /\ UNCHANGED <<env, request, result, response, pureVars, toolVars,
                   textVars, openai, inflight>>

\* TranscriptService.extract_transcript(youtube_url, language, api_key)
CallExtractTranscript ==
    /\ pc = "idle"
    /\ \E u \in SampleUrls, l \in Languages, k \in RequestKeys,
          api \in ApiOutcomes, tube \in TubeOutcomes :
         Return([op |-> "extract_transcript", youtube_url |-> u,
                 language |-> l, api_key |-> k, api |-> api, tube |-> tube],
                extract_transcript(u, l, k, env.YOUTUBE_API_KEY, api, tube))

\* SummaryService.generate_summary(transcript, ..., api_key)
CallGenerateSummary ==
    /\ pc = "idle"
    /\ \E t \in {<<>>, <<"a", " ", "a">>}, k \in RequestKeys,
          llm \in LlmOutcomes(SampleSummaryReplies) :
         Return([op |-> "generate_summary", transcript |-> t, api_key |-> k,
                 llm |-> llm],
                generate_summary(t, <<"t">>, "professional", "general", 150,
                                 250, k, env.OPENAI_API_KEY, llm))

\* PostGenerationService.generate_post(summary, ..., api_key)
CallGeneratePost ==
    /\ pc = "idle"
    /\ \E sm \in {<<>>, <<"a", " ", "a">>}, k \in RequestKeys,
          llm \in LlmOutcomes(SamplePostReplies) :
         Return([op |-> "generate_post", summary |-> sm, api_key |-> k,
                 llm |-> llm],
                generate_post(sm, <<"t">>, <<"https://", "youtu.be", "/", "a">>,
                              NoneStr, <<>>, "professional", "first_person",
                              "general", TRUE, 1200, k, env.OPENAI_API_KEY,
                              llm))

\* OutputService.format_output(post_content, format), format being any tag
CallFormatOutput ==
    /\ pc = "idle"
    /\ \E c \in {<<>>, <<"a">>, <<"a", " ", "#", "a">>},
          f \in {"json", "text", "markdown", "bogus"} :
         Return([op |-> "format_output", post_content |-> c, format |-> f],
                format_output(c, f))

NextService ==
    \/ CallExtractTranscript
    \/ CallGenerateSummary
    \/ CallGeneratePost
    \/ CallFormatOutput

SpecService == InitService /\ [][NextService]_vars

(***************************************************************************)
(* Properties of the services                                              *)
(***************************************************************************)
\* C17: format_output with json returns content = {post_content: input,
\* character_count: length(input)}, with text it returns the input
\* unchanged, and the returned format tag is the requested one.
C17_FormatJsonAndText ==
    pc = "returned" /\ svccall.op = "format_output" =>
        /\ svccall.format = "json" =>
               svcresult = [content |->
                                [post_content |-> svccall.post_content,
                                 character_count |-> Len(svccall.post_content)],
                            format |-> "json"]
        /\ svccall.format = "text" =>
               svcresult = [content |-> svccall.post_content,
                            format |-> "text"]

\* "a #a" has been formatted as text
C17_Witness ==
    /\ pc = "returned"
    /\ svccall = [op |-> "format_output", post_content |-> <<"a", " ", "#", "a">>,
                  format |-> "text"]
    /\ svcresult.content = <<"a", " ", "#", "a">>

\* the method raised instead of returning a dict
IsRaised(r) == "kind" \in DOMAIN r /\ r.kind = "raise"

\* the dict carries a non-empty error message
ErrorResult(r) ==
    /\ ~ IsRaised(r)
    /\ "error" \in DOMAIN r
    /\ r.error # <<>>

\* C18: format_output with a tag other than json or text fails with an
\* unsupported-format error, it does not return formatted content.
C18_UnsupportedFormatFails ==
    /\ pc = "returned"
    /\ svccall.op = "format_output"
    /\ svccall.format \notin {"json", "text"}
    => IsRaised(svcresult) \/ ErrorResult(svcresult)

\* the content field of the result of the method called is empty
ContentEmpty(call, r) ==
    CASE call.op = "extract_transcript" -> r.transcript = <<>>
      [] call.op = "generate_summary" -> r.summary = <<>> /\ r.key_points = <<>>
      [] call.op = "generate_post" -> r.post_content = <<>>
      [] call.op = "format_output" -> r.content = <<>>

Called(to) == \E i \in 1..Len(calls) : calls[i].to = to

\* a collaborator that was called has raised
CollaboratorFailed(call) ==
    CASE call.op = "extract_transcript" ->
             \/ /\ Called("youtube.videos.list")
                /\ call.api.kind \in {"HttpError", "Exception"}
             \/ /\ Called("transcripts.list")
                /\ \/ call.tube.kind # "list"
                   \/ ~ Called("transcripts.fetch")
                   \/ call.tube.fetch.kind = "Exception"
      [] call.op \in {"generate_summary", "generate_post"} ->
             calls # <<>> /\ call.llm.kind = "Exception"
      [] call.op = "format_output" -> FALSE

\* C19: no service method lets an exception escape; when a collaborator
\* fails the result carries a non-empty error message, and every result
\* with an error has an empty content field.
C19_FailuresBecomeErrorResults ==
    pc = "returned" =>
        /\ ~ IsRaised(svcresult)
        /\ CollaboratorFailed(svccall) => ErrorResult(svcresult)
        /\ ErrorResult(svcresult) => ContentEmpty(svccall, svcresult)

\* the transcript provider raised and the result reports it
C19_Witness ==
    /\ pc = "returned"
    /\ svccall.op = "extract_transcript"
    /\ svccall.tube.kind = "Exception"
    /\ Called("transcripts.list")
    /\ svcresult = [video_id |-> <<>>,
                    error |-> <<"Error fetching transcript: ",
                                "video unavailable">>,
                    transcript |-> <<>>]

\* neither the request nor the process gives a key for the method called
NoKey(call) ==
    /\ call.api_key \in {NoneStr, ""}
    /\ IF call.op = "extract_transcript"
       THEN env.YOUTUBE_API_KEY = NoneStr
       ELSE env.OPENAI_API_KEY = NoneStr

\* C20: without a key in the request and in the process, extract_transcript,
\* generate_summary and generate_post return an error result with empty
\* content, as for a failed call to the collaborator.
C20_MissingKeyIsError ==
    /\ pc = "returned"
    /\ svccall.op \in {"extract_transcript", "generate_summary", "generate_post"}
    /\ NoKey(svccall)
    => ErrorResult(svcresult) /\ ContentEmpty(svccall, svcresult)

\* C20 as amended: without an OpenAI key generate_summary and generate_post
\* return an error result with empty content and call nothing; without a
\* YouTube key extract_transcript makes no metadata call and returns only
\* the video_id as metadata, with an error only if the URL or the transcript
\* provider fails.
C20_MissingKeyPerService ==
    pc = "returned" /\ svccall.op # "format_output" /\ NoKey(svccall) =>
        IF svccall.op = "extract_transcript"
        THEN /\ ~ Called("youtube.videos.list")
             /\ ~ IsRaised(svcresult)
             /\ "video_title" \notin DOMAIN svcresult
             /\ ErrorResult(svcresult) <=>
                    \/ ~ Called("transcripts.list")
                    \/ CollaboratorFailed(svccall)
        ELSE /\ ErrorResult(svcresult)
             /\ ContentEmpty(svccall, svcresult)
             /\ calls = <<>>

\* a summary of a transcript has been refused for want of a key
C20_Witness ==
    /\ pc = "returned"
    /\ svccall.op = "generate_summary"
    /\ NoKey(svccall)
    /\ svccall.transcript = <<"a", " ", "a">>
    /\ svcresult = [error |-> <<"OpenAI API key not configured">>,
                    summary |-> <<>>, key_points |-> <<>>]

\* C21: no retries: one invocation of generate_summary or generate_post
\* calls the language model at most once, and when that call fails nothing
\* further is called before the error result is returned.
C21_NoRetries ==
    pc = "returned" /\ svccall.op \in {"generate_summary", "generate_post"} =>
        /\ Len(calls) <= 1
        /\ \A i \in 1..Len(calls) : calls[i].to = "openai.chat.completions"
        /\ calls # <<>> /\ svccall.llm.kind = "Exception" =>
               Len(calls) = 1 /\ ErrorResult(svcresult)

\* the one call of the model made by generate_summary has failed
C21_Witness ==
    /\ pc = "returned"
    /\ svccall.op = "generate_summary"
    /\ svccall.llm.kind = "Exception"
    /\ Len(calls) = 1
    /\ svcresult.error = <<"Error generating summary: ", "rate limit">>

\* the result of the same call made with k as the key of the request
ResultWithKey(call, k) ==
    CASE call.op = "extract_transcript" ->
             extract_transcript(call.youtube_url, call.language, k,
                                env.YOUTUBE_API_KEY, call.api, call.tube).result
      [] call.op = "generate_summary" ->
             generate_summary(call.transcript, <<"t">>, "professional",
                              "general", 150, 250, k, env.OPENAI_API_KEY,
                              call.llm).result
      [] call.op = "generate_post" ->
             generate_post(call.summary, <<"t">>,
                           <<"https://", "youtu.be", "/", "a">>, NoneStr, <<>>,
                           "professional", "first_person", "general", TRUE,
                           1200, k, env.OPENAI_API_KEY, call.llm).result

\* C22: no credential is echoed back: the error message of a failed call is
\* the same whatever the value of the key used, also when it embeds the text
\* of the collaborator's exception.
C22_ErrorSameForEveryKey ==
    /\ pc = "returned"
    /\ svccall.op # "format_output"
    /\ svccall.api_key \notin {NoneStr, ""}
    /\ ErrorResult(svcresult)
    => \A k \in {"K1", "K2"} :
           /\ ErrorResult(ResultWithKey(svccall, k))
           /\ ResultWithKey(svccall, k).error = svcresult.error

\* the calls that carry a key: the metadata lookup and the chat completion
Keyed(i) == calls[i].to \in {"youtube.videos.list", "openai.chat.completions"}

EnvKeyOf(call) ==
    IF call.op = "extract_transcript" THEN env.YOUTUBE_API_KEY
    ELSE env.OPENAI_API_KEY

\* C23: the outbound call uses the key of the request whenever one is
\* supplied, and the process-wide key only when none is.
C23_RequestKeyFirst ==
    pc = "returned" /\ svccall.op # "format_output" =>
        \A i \in 1..Len(calls) :
            Keyed(i) =>
                calls[i].key = IF svccall.api_key \in {NoneStr, ""}
                               THEN EnvKeyOf(svccall)
                               ELSE svccall.api_key

\* with both keys set, the metadata lookup has used the key of the request
C23_Witness ==
    /\ pc = "returned"
    /\ svccall.op = "extract_transcript"
    /\ svccall.api_key = "K1"
    /\ env.YOUTUBE_API_KEY = "K0"
    /\ calls # <<>>
    /\ calls[1].to = "youtube.videos.list"
    /\ calls[1].key = "K1"

\* the text given to summarise or to turn into a post
InputOf(call) ==
    IF call.op = "generate_summary" THEN call.transcript ELSE call.summary

\* C25: generate_summary and generate_post validate before any outbound
\* call: without a key the error is 'OpenAI API key not configured', also
\* when the input is empty too; otherwise with an empty input it is 'Empty
\* transcript provided' / 'Empty summary provided'; the model is not called.
C25_KeyThenInputValidated ==
    pc = "returned" /\ svccall.op \in {"generate_summary", "generate_post"} =>
        /\ NoKey(svccall) =>
               /\ svcresult.error = <<"OpenAI API key not configured">>
               /\ calls = <<>>
        /\ ~ NoKey(svccall) /\ InputOf(svccall) = <<>> =>
               /\ svcresult.error =
                      IF svccall.op = "generate_summary"
                      THEN <<"Empty transcript provided">>
                      ELSE <<"Empty summary provided">>
               /\ calls = <<>>

\* generate_post without a key and with an empty summary has reported the key
C25_Witness ==
    /\ pc = "returned"
    /\ svccall.op = "generate_post"
    /\ NoKey(svccall)
    /\ svccall.summary = <<>>
    /\ svcresult = [error |-> <<"OpenAI API key not configured">>,
                    post_content |-> <<>>]
    /\ calls = <<>>

\* the metadata lookup was made and has reported an error: the provider
\* raised, found no video, or gave a duration that does not parse
MetadataErrorOf(call) ==
    IF call.api.kind = "HttpError" THEN <<"YouTube API error: ">>
    ELSE IF call.api.kind = "Exception"
    THEN <<"Error fetching video metadata: ">> \o call.api.text
    ELSE IF call.api.items = <<>> THEN <<"Video not found">>
    ELSE IF _parse_duration(call.api.items[1].duration).kind = "raise"
    THEN <<"Error fetching video metadata: ">>
    ELSE <<>>

\* C26: extract_transcript looks up metadata before fetching the transcript,
\* and when the lookup reports an error the transcript provider is never
\* called and the result carries that error, the extracted video_id and an
\* empty transcript.
C26_MetadataErrorStopsFetch ==
    pc = "returned" /\ svccall.op = "extract_transcript" =>
        /\ \A i, j \in 1..Len(calls) :
               /\ calls[i].to = "youtube.videos.list"
               /\ calls[j].to \in {"transcripts.list", "transcripts.fetch"}
               => i < j
        /\ Called("youtube.videos.list") /\ MetadataErrorOf(svccall) # <<>> =>
               /\ Len(calls) = 1
               /\ ErrorResult(svcresult)
               /\ StartsWith(svcresult.error, MetadataErrorOf(svccall))
               /\ svcresult.video_id =
                      extract_video_id(svccall.youtube_url).value
               /\ svcresult.transcript = <<>>

\* the video was not found and nothing was asked of the transcript provider
C26_Witness ==
    /\ pc = "returned"
    /\ svccall.op = "extract_transcript"
    /\ svccall.youtube_url = <<"https://", "youtu.be", "/", "a">>
    /\ svccall.tube.kind = "list"
    /\ calls = <<[to |-> "youtube.videos.list", id |-> <<"a">>, key |-> "K1"]>>
    /\ svcresult = [video_id |-> <<"a">>, error |-> <<"Video not found">>,
                    transcript |-> <<>>]

(***************************************************************************)
(* Properties of the advertised interface                                  *)
(***************************************************************************)
\* C27: every output format the tool listings advertise for format_output
\* is accepted by POST /api/v1/output and gives a formatted result.
C27_AdvertisedFormatsAccepted ==
    /\ pc = "responded"
    /\ request.endpoint = "/api/v1/output"
    /\ request.format \in AdvertisedFormats
    => /\ response.status = "200"
       /\ response.body.format = request.format

\* C28: when the video has no transcript in the requested language but has
\* one in another language, get_transcript finds it, translates it and
\* returns its cleaned text with the requested language code.
C28_FallbackTranslates ==
    /\ pc = "returned"
    /\ svccall.op = "extract_transcript"
    /\ Called("transcripts.list")
    /\ svccall.tube.kind = "list"
    /\ svccall.language \notin svccall.tube.available
    /\ svccall.tube.available # {}
    /\ svccall.tube.translatable
    /\ svccall.tube.fetch.kind = "text"
    => /\ ~ ErrorResult(svcresult)
       /\ svcresult.language = svccall.language
       /\ svcresult.transcript = _clean_transcript(svccall.tube.fetch.text)

(***************************************************************************)
(* Specification of the read-time estimate of generate_post                *)
(***************************************************************************)
InitRead ==
    /\ pc = "start"
    /\ charcount \in 0..MaxChars
    /\ readtime = Pending
    /\ llmtext = <<>> /\ sectioned = Pending
    /\ posttext = <<>> /\ hashtagged = Pending
    /\ IdlePure /\ IdleRequest /\ IdleTool /\ IdleSvc

\* lines 83-90 of generate_post, for a post of charcount characters
EstimateReadTime ==
    /\ pc = "start"
    /\ readtime' = Returned(EstimatedReadTime(charcount))
    /\ pc' = "estimated"
    /\ UNCHANGED <<pureVars, httpVars, toolVars, svcVars, llmtext, sectioned,
                   posttext, hashtagged, charcount>>

SpecRead == InitRead /\ [][EstimateReadTime]_vars

\* C29: estimated_read_time follows a reading speed of 265 characters per
\* minute: 'Less than a minute' exactly when the post takes under a minute
\* at that speed, otherwise 'About N minute(s)' with N the whole number of
\* minutes and the plural only when N > 1.
C29_ReadTimeAt265PerMinute ==
    pc = "estimated" =>
        readtime.value =
            IF charcount < 265
            THEN [text |-> "Less than a minute"]
            ELSE [text |-> "About", minutes |-> charcount \div 265,
                  plural |-> (charcount \div 265) > 1]

\* C30: the key_points returned by _parse_response hold no empty string:
\* blank lines are discarded and no line, such as one holding only the
\* dash, gives an empty key point.
C30_NoEmptyKeyPoint ==
    pc = "parsed" =>
        \A i \in 1..Len(sectioned.value.key_points) :
            sectioned.value.key_points[i] # <<>>

(***************************************************************************)
(* Specification of concurrent requests: /summarize and /generate-post.    *)
(* The dependency (get_summary_service, get_post_generation_service) runs  *)
(* in the thread pool and the handler on the event loop, so the steps of   *)
(* different requests interleave.                                          *)
(***************************************************************************)
InitConc ==
    /\ pc = "serving"
    /\ env \in [YOUTUBE_API_KEY : {NoneStr}, OPENAI_API_KEY : EnvKeys]
    /\ openai = [api_key |-> NoneStr]
    /\ inflight \in [1..MaxRequests ->
                        [at : {"arrived"},
                         endpoint : {"/api/v1/summarize",
                                     "/api/v1/generate-post"},
                         input : {<<"a">>, <<"1">>},
                         openai_api_key : RequestKeys,
                         self_key : {NoneStr},
                         result : {Pending}]]
    /\ request = Pending /\ result = Pending
    /\ calls = <<>> /\ response = Pending
    /\ svccall = Pending /\ svcresult = Pending
    /\ IdlePure /\ IdleTool /\ IdleText

\* SummaryService() / PostGenerationService(): __init__ for request r
Construct(r) ==
    /\ inflight[r].at = "arrived"
    /\ inflight' = [inflight EXCEPT ![r].at = "constructed",
                                    ![r].self_key = env.OPENAI_API_KEY]
    /\ openai' = IF Truthy(env.OPENAI_API_KEY)
                 THEN [api_key |-> env.OPENAI_API_KEY]
                 ELSE openai
    /\ UNCHANGED <<pc, pureVars, httpVars, toolVars, textVars, svccall,
                   svcresult>>

\* the handler of request r sets the module's key before it calls
Handle_ModuleKey(r) ==
    /\ inflight[r].at = "constructed"
    /\ \E llm \in LlmOutcomes({<<"a", " ", "#", "a">>}) :
         LET q == inflight[r]
             served ==
                 IF q.endpoint = "/api/v1/summarize"
                 THEN generate_summary(q.input, <<"t">>, "professional",
                                       "general", 150, 250, q.openai_api_key,
                                       q.self_key, llm)
                 ELSE generate_post(q.input, <<"t">>,
                                    <<"https://", "youtu.be", "/", "a">>,
                                    NoneStr, <<>>, "professional",
                                    "first_person", "general", TRUE, 1200,
                                    q.openai_api_key, q.self_key, llm)
         IN  /\ calls' = calls \o [i \in 1..Len(served.calls) |->
                                      [request |-> r, call |-> served.calls[i]]]
             /\ inflight' = [inflight EXCEPT ![r].at = "responded",
                                             ![r].result = served.result]
             /\ openai' = IF served.calls # <<>>
                          THEN [api_key |-> served.calls[1].key]
                          ELSE openai
    /\ UNCHANGED <<pc, env, request, result, response, pureVars, toolVars,
                   textVars, svccall, svcresult>>

\* the handler of request r: generate_summary / generate_post on r's service
Handle(r) ==
    /\ inflight[r].at = "constructed"
    /\ \E llm \in LlmOutcomes({<<"a", " ", "#", "a">>}) :
         LET q == inflight[r]
             served ==
                 IF q.endpoint = "/api/v1/summarize"
                 THEN generate_summary(q.input, <<"t">>, "professional",
                                       "general", 150, 250, q.openai_api_key,
                                       q.self_key, llm)
                 ELSE generate_post(q.input, <<"t">>,
                                    <<"https://", "youtu.be", "/", "a">>,
                                    NoneStr, <<>>, "professional",
                                    "first_person", "general", TRUE, 1200,
                                    q.openai_api_key, q.self_key, llm)
         IN  /\ calls' = calls \o [i \in 1..Len(served.calls) |->
                                      [request |-> r, call |-> served.calls[i]]]
             /\ inflight' = [inflight EXCEPT ![r].at = "responded",
                                             ![r].result = served.result]
    /\ UNCHANGED <<pc, env, request, result, response, pureVars, toolVars,
                   textVars, svccall, svcresult, openai>>

NextConc ==
    \E r \in 1..MaxRequests :
        \/ Construct(r)
        \/ Handle(r)

SpecConc == InitConc /\ [][NextConc]_vars

\* every outbound call carries the key and the input of the request that
\* made it
CallsOfOwnRequest ==
    \A i \in 1..Len(calls) :
        LET q == inflight[calls[i].request]
            c == calls[i].call
        IN  /\ c.key = IF q.openai_api_key \in {NoneStr, ""}
                       THEN env.OPENAI_API_KEY
                       ELSE q.openai_api_key
            /\ IF q.endpoint = "/api/v1/summarize"
               THEN c.prompt.transcript = q.input
               ELSE c.prompt.summary = q.input

\* a step leaves the environment alone, gives the module's key no value but
\* the environment's, and changes the state of one request at most
StepOfOneRequest ==
    /\ env' = env
    /\ openai'.api_key \in {openai.api_key, env.OPENAI_API_KEY}
    /\ \A r, o \in 1..MaxRequests :
           r # o /\ inflight'[r] # inflight[r] => inflight'[o] = inflight[o]

\* C24: request-local data is never shared across requests: for every
\* interleaving each outbound call uses the key and the inputs of its own
\* request, and handling a request, with a key of its own or not, changes
\* neither the process-wide default key nor anything else another request
\* reads.
C24_RequestsIsolated ==
    [] CallsOfOwnRequest /\ [][StepOfOneRequest]_vars

\* two requests with different keys and inputs were served interleaved and
\* both called the model
C24_Witness ==
    /\ pc = "serving"
    /\ Len(calls) = 2
    /\ calls[1].request = 2 /\ calls[2].request = 1
    /\ inflight[1].openai_api_key = "K1" /\ inflight[2].openai_api_key = NoneStr
    /\ inflight[1].input # inflight[2].input
    /\ inflight[1].at = "responded" /\ inflight[2].at = "responded"
    /\ openai.api_key = "K0"

====
